---- MODULE Spec2Model ----
(***************************************************************************)
(* A model of csnake.py: the shape() helper, Variable (declaration and     *)
(* initialization, with the stack-driven generate_array serializer),       *)
(* FuncPtr, the Subscript modifier and the CodeWriter text buffer.          *)
(*                                                                         *)
(* Text is a sequence of tokens (TLA+ strings); concatenation of Python    *)
(* strings is concatenation of token sequences.  The whitespace tokens are *)
(* " ", "\n" and the indent unit.                                          *)
(***************************************************************************)
EXTENDS Integers, Sequences, FiniteSets, TLC

VARIABLES
    \* Variable.initialization (one call, run step by step)
    var,            \* self: the Variable being initialized
    pc,             \* position of the call: "start", "loop", "done", "raised"
    stack,          \* generate_array: stack (top is the last element)
    output,         \* generate_array: output
    depth,          \* generate_array: depth
    leading_comma,  \* generate_array: leading_comma
    assignment,     \* initialization: assignment (the part set before generate_array)
    result,         \* the string the call returns (once pc = "done")
    \* one call of shape / Variable.__array_dimensions / Variable.declaration
    decl_self,      \* the Variable the function is called on
    decl_op,        \* the call made: <<>> before it, <<"shape">>, <<"declaration", extern>>, ...
    decl_ret,       \* what the call returned
    \* one Subscript: its construction, then its name
    sub_pc,         \* "new", "built", "raised", "named"
    sub_target,     \* __init__'s target argument
    sub_subscript,  \* __init__'s subscript argument
    sub_self,       \* the Subscript object, once built
    sub_raised,     \* the error __init__ raised, "" when none
    sub_name,       \* the text its name property returned
    \* a CodeWriter and the calls made on it
    text,           \* self.text
    tabs,           \* self.tabs
    commenting,     \* self.commenting
    defs,           \* self.defs
    switch,         \* self.switch
    called,         \* the last call made: <<method name, arguments...>>
    raised,         \* the exception the last call raised, "" when it returned
    ncalls          \* number of calls made so far

serVars == <<var, pc, stack, output, depth, leading_comma, assignment, result>>
declVars == <<decl_self, decl_op, decl_ret>>
subVars == <<sub_pc, sub_target, sub_subscript, sub_self, sub_raised, sub_name>>
writerVars == <<text, tabs, commenting, defs, switch, called, raised, ncalls>>
vars == <<serVars, declVars, subVars, writerVars>>

----------------------------------------------------------------------------
(* Bounds of the model *)

\* longest array of scalars drawn as an input
MaxLen == 2
\* deepest chain of one-element arrays / one-field records drawn as an input
MaxNest == 4
\* most calls made on one CodeWriter
MaxCalls == 2

----------------------------------------------------------------------------
(* Python values *)

None == [k |-> "none"]
IntV(n) == [k |-> "int", i |-> n]
BoolV(b) == [k |-> "bool", b |-> b]
FloatV(r) == [k |-> "float", r |-> r]       \* r: the float's str() form
StrV(s) == [k |-> "str", s |-> s]
ComplexV == [k |-> "complex"]               \* a host type the library does not know
ModV(nm) == [k |-> "mod", name |-> nm]      \* a Modifier, with its .name
ListV(es) == [k |-> "arr", e |-> es]        \* list / tuple
NdV(shp, es) == [k |-> "nd", shp |-> shp, e |-> es]  \* numpy.ndarray
DictV(fs) == [k |-> "rec", f |-> fs]        \* dict: <<key, value>> pairs in insertion order

\* isinstance(x, AnyInt): int, numpy.integer and (as a subclass of int) bool
IsAnyInt(x) == x.k \in {"int", "bool"}
IsAnyFloat(x) == x.k = "float"
IsStr(x) == x.k = "str"
IsBool(x) == x.k = "bool"
IsModifier(x) == x.k = "mod"
\* isinstance(x, AnyArrayValue): iterable and neither dict nor str
IsAnyArrayValue(x) == x.k \in {"arr", "nd"}
IsAnyStructValue(x) == x.k = "rec"

----------------------------------------------------------------------------
(* Text helpers *)

LF == "\n"
Indent == "    "
Whitespace == {" ", LF, Indent}

Top(s) == s[Len(s)]
Pop(s) == SubSeq(s, 1, Len(s) - 1)
Reverse(s) == [i \in 1..Len(s) |-> s[Len(s) + 1 - i]]

\* Python's  s * n  for a one-token string s: empty when n <= 0
Times(s, n) == [i \in 1..(IF n > 0 THEN n ELSE 0) |-> s]

RECURSIVE Flatten(_)
Flatten(ss) == IF ss = <<>> THEN <<>> ELSE Head(ss) \o Flatten(Tail(ss))

Digit(d) == <<"0", "1", "2", "3", "4", "5", "6", "7", "8", "9">>[d + 1]

RECURSIVE DecNat(_)
DecNat(n) == IF n < 10 THEN <<Digit(n)>> ELSE DecNat(n \div 10) \o <<Digit(n % 10)>>

\* str(n) of an integer
StrInt(n) == IF n < 0 THEN <<"-">> \o DecNat(-n) ELSE DecNat(n)

\* str(x) of a number or bool
Str(x) ==
    CASE x.k = "int" -> StrInt(x.i)
      [] x.k = "bool" -> IF x.b THEN <<"True">> ELSE <<"False">>
      [] x.k = "float" -> <<x.r>>
      [] x.k = "str" -> <<x.s>>
      [] OTHER -> <<"?">>

\* formatstring.format(x) for a format string  pre + "{}" + suf
Format(fmt, x) == <<fmt.pre>> \o Str(x) \o <<fmt.suf>>

----------------------------------------------------------------------------
(* shape(array), lines 10-29 *)

\* mutant: the loop descends into the last element, not the first (line 27)
RECURSIVE shape_loop_LastElement(_, _)
shape_loop_LastElement(curr, shp) ==
    IF ~IsAnyArrayValue(curr) THEN shp
    ELSE IF Len(curr.e) = 0 THEN Append(shp, 0)
    ELSE shape_loop_LastElement(curr.e[Len(curr.e)], Append(shp, Len(curr.e)))

RECURSIVE shape_loop(_, _)
shape_loop(curr, shp) ==
    IF ~IsAnyArrayValue(curr) THEN shp
    ELSE IF Len(curr.e) = 0 THEN Append(shp, 0)        \* curr[0] raises IndexError
    ELSE shape_loop(curr.e[1], Append(shp, Len(curr.e)))

shape(array) ==
    IF array.k = "nd" THEN array.shp
    ELSE IF IsStr(array) THEN <<>>
    ELSE shape_loop(array, <<>>)

----------------------------------------------------------------------------
(* Variable.initialization: generate_single_var, lines 186-199 *)

\* the returned text; NoText stands for the implicit  return None
NoText == <<"<None>">>

generate_single_var(var_, formatstring) ==
    IF IsStr(var_) THEN <<"\"", var_.s, "\"">>
    ELSE IF IsModifier(var_) THEN <<var_.name>>
    ELSE IF IsBool(var_) THEN (IF var_.b THEN <<"true">> ELSE <<"false">>)
    ELSE IF IsAnyInt(var_) \/ IsAnyFloat(var_)
         THEN (IF formatstring = None THEN Str(var_) ELSE Format(formatstring, var_))
    ELSE NoText

----------------------------------------------------------------------------
(* Variable.initialization: generate_array, lines 201-291.                 *)
(* g is the record of the function's locals; each operator below is one    *)
(* branch of the body of  while stack:                                     *)

OpenBrace == [k |-> "OpenBrace"]
ClosedBrace == [k |-> "ClosedBrace"]
Designator(name) == [k |-> "Designator", name |-> name]

IsOpenBrace(x) == x.k = "OpenBrace"
IsClosedBrace(x) == x.k = "ClosedBrace"
IsDesignator(x) == x.k = "Designator"
IsScalar(x) == IsAnyInt(x) \/ IsAnyFloat(x) \/ IsStr(x) \/ IsBool(x) \/ IsModifier(x)

Locals(array) ==
    [stack |-> <<array>>, output |-> <<>>, depth |-> 0, leading_comma |-> FALSE,
     raised |-> FALSE]

\* lines 226-231
PushArray(g) ==
    LET top == Top(g.stack) IN
    [g EXCEPT !.stack = Pop(g.stack) \o <<ClosedBrace>> \o Reverse(top.e) \o <<OpenBrace>>]

\* mutant: the pairs are pushed without the [::-1] of line 236
PushStruct_Unreversed(g) ==
    LET top == Top(g.stack)
        dict_pairs == [i \in 1..Len(top.f) |-> <<top.f[i][2], Designator(top.f[i][1])>>]
        flatdict == Flatten(dict_pairs)
    IN [g EXCEPT !.stack = Pop(g.stack) \o <<ClosedBrace>> \o flatdict \o <<OpenBrace>>]

\* lines 233-243
PushStruct(g) ==
    LET top == Top(g.stack)
        dict_pairs == Reverse([i \in 1..Len(top.f) |-> <<top.f[i][2], Designator(top.f[i][1])>>])
        flatdict == Flatten(dict_pairs)
    IN [g EXCEPT !.stack = Pop(g.stack) \o <<ClosedBrace>> \o flatdict \o <<OpenBrace>>]

\* mutant: the test of line 251 is missing, a comma follows every closing brace
PopClosedBrace_TrailingComma(g) ==
    LET rest == Pop(g.stack)
        d == IF g.depth > 0 THEN g.depth - 1 ELSE g.depth
        out == g.output \o <<"}">>
    IN IF rest = <<>>
       THEN [g EXCEPT !.stack = rest, !.depth = d, !.output = out]
       ELSE [g EXCEPT !.stack = rest, !.depth = d, !.leading_comma = FALSE,
                      !.output =
                          IF IsDesignator(Top(rest)) THEN out \o <<",">>
                          ELSE out \o <<",", LF>> \o Times(Indent, d)]

\* lines 246-259
PopClosedBrace(g) ==
    LET rest == Pop(g.stack)
        d == IF g.depth > 0 THEN g.depth - 1 ELSE g.depth
        out == g.output \o <<"}">>
    IN IF rest = <<>>
       THEN [g EXCEPT !.stack = rest, !.depth = d, !.output = out]
       ELSE [g EXCEPT !.stack = rest, !.depth = d, !.leading_comma = FALSE,
                      !.output =
                          IF IsClosedBrace(Top(rest)) THEN out \o <<LF>> \o Times(Indent, d - 1)
                          ELSE IF IsDesignator(Top(rest)) THEN out \o <<",">>
                          ELSE out \o <<",", LF>> \o Times(Indent, d)]

\* lines 262-265
CheckLeadingComma(g) ==
    IF g.leading_comma THEN [g EXCEPT !.output = @ \o <<",", " ">>]
    ELSE [g EXCEPT !.leading_comma = TRUE]

\* mutant: the  depth += 1  of line 270 is missing
PopOpenBrace_NoDepth(g) ==
    LET c == CheckLeadingComma(g)
        rest == Pop(g.stack)
        d == g.depth
        nl == IsOpenBrace(Top(rest)) \/ IsAnyArrayValue(Top(rest)) \/ IsAnyStructValue(Top(rest))
    IN [c EXCEPT !.stack = rest, !.leading_comma = FALSE,
                 !.output = @ \o <<"{">> \o (IF nl THEN <<LF>> \o Times(Indent, d) ELSE <<>>)]

\* lines 262-265 and 268-277
PopOpenBrace(g) ==
    LET c == CheckLeadingComma(g)
        rest == Pop(g.stack)
        d == g.depth + 1
        nl == IsOpenBrace(Top(rest)) \/ IsAnyArrayValue(Top(rest)) \/ IsAnyStructValue(Top(rest))
    IN [c EXCEPT !.stack = rest, !.depth = d, !.leading_comma = FALSE,
                 !.output = @ \o <<"{">> \o (IF nl THEN <<LF>> \o Times(Indent, d) ELSE <<>>)]

\* lines 262-265 and 279-282
PopScalar(g, formatstring) ==
    LET c == CheckLeadingComma(g) IN
    [c EXCEPT !.stack = Pop(g.stack),
              !.output = @ \o generate_single_var(Top(g.stack), formatstring)]

\* lines 262-265 and 284-289;  '.' + top.name  raises TypeError unless the key is a str
PopDesignator(g) ==
    LET c == CheckLeadingComma(g)
        top == Top(g.stack)
    IN IF IsStr(top.name)
       THEN [c EXCEPT !.stack = Pop(g.stack), !.leading_comma = FALSE,
                      !.output = @ \o <<LF>> \o Times(Indent, g.depth)
                                   \o <<".", top.name.s, " ", "=", " ">>]
       ELSE [c EXCEPT !.stack = Pop(g.stack), !.raised = TRUE,
                      !.output = @ \o <<LF>> \o Times(Indent, g.depth)]

\* lines 262-265 alone: a popped value that matches none of the isinstance tests
PopOther(g) ==
    [CheckLeadingComma(g) EXCEPT !.stack = Pop(g.stack)]

\* one iteration of  while stack:
LoopBody(g, formatstring) ==
    LET top == Top(g.stack) IN
    IF IsAnyArrayValue(top) THEN PushArray(g)
    ELSE IF IsAnyStructValue(top) THEN PushStruct(g)
    ELSE IF IsClosedBrace(top) THEN PopClosedBrace(g)
    ELSE IF IsOpenBrace(top) THEN PopOpenBrace(g)
    ELSE IF IsScalar(top) THEN PopScalar(g, formatstring)
    ELSE IF IsDesignator(top) THEN PopDesignator(g)
    ELSE PopOther(g)

RECURSIVE RunLoop(_, _)
RunLoop(g, formatstring) ==
    IF g.stack = <<>> \/ g.raised THEN g ELSE RunLoop(LoopBody(g, formatstring), formatstring)

\* the whole call: the locals when the loop ends (or when an exception leaves it)
generate_array(array, formatstring) == RunLoop(Locals(array), formatstring)

----------------------------------------------------------------------------
(* FuncPtr, lines 99-118 *)

FuncPtr(return_type, args) == [k |-> "FuncPtr", return_type |-> return_type, args |-> args]
IsFuncPtr(x) == x.k = "FuncPtr"

\* sep.join(items) for a sequence of str values
RECURSIVE Join(_, _)
Join(items, sep) ==
    IF items = <<>> THEN <<>>
    ELSE IF Len(items) = 1 THEN <<items[1].s>>
    ELSE <<items[1].s>> \o sep \o Join(Tail(items), sep)

\* bool(x) of the values used as arguments
Truthy(x) ==
    CASE x.k = "none" -> FALSE
      [] x.k = "int" -> x.i # 0
      [] x.k = "bool" -> x.b
      [] x.k = "str" -> x.s # ""
      [] x.k = "arr" -> x.e # <<>>
      [] x.k = "rec" -> x.f # <<>>
      [] OTHER -> TRUE

\* lines 106-118
get_declaration(self, name) ==
    LET jointargs == IF IsAnyArrayValue(self.args) THEN Join(self.args.e, <<",", " ">>)
                     ELSE Str(self.args)
    IN <<self.return_type, " ", "(", "*", name, ")", "(">>
       \o (IF Truthy(self.args) THEN jointargs ELSE <<>>)
       \o <<")">>

----------------------------------------------------------------------------
(* Variable, lines 121-327 *)

Variable(name, primitive, qualifiers, array, comment, value, value_opts) ==
    [k |-> "Variable", name |-> name, primitive |-> primitive, qualifiers |-> qualifiers,
     array |-> array, comment |-> comment, value |-> value, value_opts |-> value_opts]
IsVariable(x) == x.k = "Variable"

\* "[{0}]".format(dim) for each dim, joined
RECURSIVE Brackets(_)
Brackets(dims) ==
    IF dims = <<>> THEN <<>> ELSE <<"[">> \o Str(Head(dims)) \o <<"]">> \o Brackets(Tail(dims))

\* the list shape() returns, as int values
ShapeDims(value) == [i \in 1..Len(shape(value)) |-> IntV(shape(value)[i])]

\* mutant: the text test of line 145 comes before the tests of self.array
array_dimensions_TextFirst(self) ==
    IF IsStr(self.value) THEN <<"[", "]">>
    ELSE IF IsAnyArrayValue(self.array) THEN Brackets(self.array.e)
    ELSE IF self.array # None THEN <<"[">> \o Str(self.array) \o <<"]">>
    ELSE IF shape(self.value) # <<>> THEN Brackets(ShapeDims(self.value))
    ELSE <<>>

\* lines 140-152
array_dimensions(self) ==
    IF IsAnyArrayValue(self.array) THEN Brackets(self.array.e)
    ELSE IF self.array # None THEN <<"[">> \o Str(self.array) \o <<"]">>
    ELSE IF IsStr(self.value) THEN <<"[", "]">>
    ELSE IF shape(self.value) # <<>> THEN Brackets(ShapeDims(self.value))
    ELSE <<>>

\* lines 157-163 and 295-301: qual, or TypeError from " ".join of a non-str item
QualRaises(self) ==
    /\ IsAnyArrayValue(self.qualifiers)
    /\ \E i \in 1..Len(self.qualifiers.e) : ~IsStr(self.qualifiers.e[i])

Qual(self) ==
    IF IsAnyArrayValue(self.qualifiers) THEN Join(self.qualifiers.e, <<" ">>) \o <<" ">>
    ELSE IF self.qualifiers # None THEN Str(self.qualifiers) \o <<" ">>
    ELSE <<>>

\* lines 165-181, once qual is known
declaration_text(self, extern) ==
    LET ext == IF extern THEN <<"extern", " ">> ELSE <<>>
        array == array_dimensions(self)
    IN IF IsFuncPtr(self.primitive)
       THEN ext \o Qual(self) \o get_declaration(self.primitive, self.name) \o array
       ELSE ext \o Qual(self) \o <<self.primitive.s, " ", self.name>> \o array

\* Variable.declaration, lines 154-181: the text returned, or raised
declaration(self, extern) ==
    IF QualRaises(self) THEN [raised |-> TRUE, text |-> <<>>]
    ELSE [raised |-> FALSE, text |-> declaration_text(self, extern)]

\* lines 305-306: the part of assignment set before generate_array runs
AssignmentPrefix(self) == IF Len(shape(self.value)) > 1 THEN <<LF>> ELSE <<>>

\* lines 311-327
InitString(self, assignment_) ==
    LET assignment_string == IF assignment_ # NoText /\ assignment_ # <<>>
                             THEN <<" ", "=", " ">> \o assignment_ ELSE <<>>
        array == array_dimensions(self)
    IN IF IsFuncPtr(self.primitive)
       THEN Qual(self) \o get_declaration(self.primitive, self.name) \o array
            \o assignment_string \o <<";">>
       ELSE Qual(self) \o <<self.primitive.s, " ", self.name>> \o array
            \o assignment_string \o <<";">>

\* Variable.initialization, lines 183-327, as one call: the text returned, or raised
initialization(self) ==
    IF QualRaises(self) THEN [raised |-> TRUE, text |-> <<>>]
    ELSE IF IsAnyArrayValue(self.value) \/ IsAnyStructValue(self.value)
    THEN LET g == generate_array(self.value, self.value_opts) IN
         IF g.raised THEN [raised |-> TRUE, text |-> <<>>]
         ELSE [raised |-> FALSE, text |-> InitString(self, AssignmentPrefix(self) \o g.output)]
    ELSE [raised |-> FALSE,
          text |-> InitString(self, generate_single_var(self.value, self.value_opts))]

----------------------------------------------------------------------------
(* Input values drawn by the specifications *)

\* sequences over S of length at most n
SeqsUpTo(S, n) == UNION {[1..m -> S] : m \in 0..n}
\* the empty sequence, the singletons and the pairs over S
UpToPairs(S) == {<<>>} \cup {<<x>> : x \in S} \cup {<<x, y>> : x, y \in S}

ListsOf(elems) == {ListV(es) : es \in elems}

\* dict keys, in every insertion order of at most two distinct names
KeyOrders == {<<>>, <<"a">>, <<"b">>, <<"a", "b">>, <<"b", "a">>}
DictsOver(S) ==
    {DictV([i \in 1..Len(ks) |-> <<StrV(ks[i]), vs[i]>>]) : ks \in KeyOrders, vs \in [1..2 -> S]}

Scalars ==
    {IntV(-1), IntV(0), IntV(12), BoolV(TRUE), FloatV("1.5"), StrV("hi"), ModV("&x"),
     None, ComplexV}
CoreLeaves == {IntV(-1), IntV(12), ComplexV}

\* one-level arrays and dicts
FlatValues == ListsOf(SeqsUpTo(Scalars, MaxLen)) \cup DictsOver(Scalars)
MidValues == CoreLeaves \cup ListsOf(SeqsUpTo(CoreLeaves, MaxLen)) \cup DictsOver(CoreLeaves)
\* two-level arrays and dicts
NestedValues == ListsOf(UpToPairs(MidValues)) \cup DictsOver(MidValues)

\* chains: v wrapped n times in a one-element list / a one-field dict / both in turn
RECURSIVE WrapList(_, _)
WrapList(v, n) == IF n = 0 THEN v ELSE ListV(<<WrapList(v, n - 1)>>)
RECURSIVE WrapDict(_, _)
WrapDict(v, n) == IF n = 0 THEN v ELSE DictV(<< <<StrV("a"), WrapDict(v, n - 1)>> >>)
RECURSIVE WrapMixed(_, _)
WrapMixed(v, n) ==
    IF n = 0 THEN v
    ELSE IF n % 2 = 0 THEN ListV(<<WrapMixed(v, n - 1), IntV(12)>>)
    ELSE DictV(<< <<StrV("a"), WrapMixed(v, n - 1)>>, <<StrV("b"), IntV(-1)>> >>)
ChainSeeds == {IntV(12), ListV(<<IntV(-1), IntV(12)>>), DictV(<< <<StrV("b"), IntV(0)>> >>)}
ChainValues ==
    {WrapList(v, n) : v \in ChainSeeds, n \in 1..MaxNest}
    \cup {WrapDict(v, n) : v \in ChainSeeds, n \in 1..MaxNest}
    \cup {WrapMixed(v, n) : v \in ChainSeeds, n \in 1..MaxNest}

\* numpy.zeros(shp, dtype=int)
RECURSIVE Zeros(_)
Zeros(shp) ==
    NdV(shp, [i \in 1..shp[1] |-> IF Len(shp) = 1 THEN IntV(0) ELSE Zeros(Tail(shp))])
NdValues == {Zeros(<<2>>), Zeros(<<0>>), Zeros(<<1, 2>>), Zeros(<<0, 2>>), Zeros(<<2, 0>>),
             Zeros(<<2, 0, 1>>)}

\* dicts with a key that is not a str
BadKeyValues ==
    {DictV(<< <<IntV(1), IntV(12)>> >>),
     DictV(<< <<StrV("a"), IntV(12)>>, <<IntV(1), IntV(0)>> >>),
     ListV(<<IntV(12), DictV(<< <<IntV(1), IntV(12)>> >>)>>)}

CompositeValues == FlatValues \cup NestedValues \cup ChainValues \cup NdValues \cup BadKeyValues
Values == Scalars \cup CompositeValues

\* value_opts: None or a format string  pre + "{}" + suf
Formats == {None, [pre |-> "", suf |-> "u"]}
Qualifiers == {None, StrV("const"), ListV(<<StrV("static"), StrV("const")>>),
               ListV(<<>>), ListV(<<StrV("static"), IntV(1)>>), IntV(5)}
Primitives == {StrV("int"), FuncPtr("void", ListV(<<StrV("int"), StrV("char")>>))}

PlainVar(value, value_opts) ==
    Variable("x", StrV("int"), None, None, None, value, value_opts)

\* the Variables whose initialization is run step by step
SerVariables ==
    {PlainVar(v, None) : v \in Values}
    \cup {PlainVar(v, f) : v \in Scalars \cup FlatValues, f \in Formats}
    \cup {Variable("x", p, q, None, None, v, None) :
            p \in Primitives, q \in Qualifiers,
            v \in {IntV(12), ListV(<<IntV(-1), IntV(12)>>), Zeros(<<1, 2>>)}}

----------------------------------------------------------------------------
(* Variable.initialization run step by step: one action per branch *)

G == [stack |-> stack, output |-> output, depth |-> depth, leading_comma |-> leading_comma,
      raised |-> FALSE]

SetLocals(g) ==
    /\ stack' = g.stack
    /\ output' = g.output
    /\ depth' = g.depth
    /\ leading_comma' = g.leading_comma

DeclIdle == decl_self = None /\ decl_op = <<>> /\ decl_ret = <<>>

\* the variables a run of Variable.initialization leaves alone
SubIdle ==
    /\ sub_pc = "idle" /\ sub_target = None /\ sub_subscript = None /\ sub_self = None
    /\ sub_raised = "" /\ sub_name = <<>>

WriterIdle ==
    /\ text = <<>> /\ tabs = 0 /\ commenting = FALSE /\ defs = <<>> /\ switch = <<>>
    /\ called = <<>> /\ raised = "" /\ ncalls = 0

SerOnly == UNCHANGED <<declVars, subVars, writerVars>>

SerInit ==
    /\ DeclIdle /\ SubIdle /\ WriterIdle
    /\ var \in SerVariables
    /\ pc = "start"
    /\ stack = <<>>
    /\ output = <<>>
    /\ depth = 0
    /\ leading_comma = FALSE
    /\ assignment = <<>>
    /\ result = <<>>

IsComposite(v) == IsAnyArrayValue(v) \/ IsAnyStructValue(v)

\* lines 295-301 raise
QualifiersRaise ==
    /\ pc = "start"
    /\ QualRaises(var)
    /\ pc' = "raised"
    /\ UNCHANGED <<var, stack, output, depth, leading_comma, assignment, result>>
    /\ SerOnly

\* lines 295-306 and 216-220: the call of generate_array
EnterGenerateArray ==
    /\ pc = "start"
    /\ ~QualRaises(var)
    /\ IsComposite(var.value)
    /\ assignment' = AssignmentPrefix(var)
    /\ SetLocals(Locals(var.value))
    /\ pc' = "loop"
    /\ UNCHANGED <<var, result>>
    /\ SerOnly

\* lines 295-303 and 308-327: a value that is no array and no dict
SingleVar ==
    /\ pc = "start"
    /\ ~QualRaises(var)
    /\ ~IsComposite(var.value)
    /\ assignment' = generate_single_var(var.value, var.value_opts)
    /\ result' = InitString(var, assignment')
    /\ pc' = "done"
    /\ UNCHANGED <<var, stack, output, depth, leading_comma>>
    /\ SerOnly

InLoop == pc = "loop" /\ stack # <<>>

StepArray ==
    /\ InLoop /\ IsAnyArrayValue(Top(stack))
    /\ SetLocals(PushArray(G))
    /\ UNCHANGED <<var, pc, assignment, result>>
    /\ SerOnly

StepStruct ==
    /\ InLoop /\ IsAnyStructValue(Top(stack))
    /\ SetLocals(PushStruct(G))
    /\ UNCHANGED <<var, pc, assignment, result>>
    /\ SerOnly

StepClosedBrace ==
    /\ InLoop /\ IsClosedBrace(Top(stack))
    /\ SetLocals(PopClosedBrace(G))
    /\ UNCHANGED <<var, pc, assignment, result>>
    /\ SerOnly

StepOpenBrace ==
    /\ InLoop /\ IsOpenBrace(Top(stack))
    /\ SetLocals(PopOpenBrace(G))
    /\ UNCHANGED <<var, pc, assignment, result>>
    /\ SerOnly

StepScalar ==
    /\ InLoop /\ IsScalar(Top(stack))
    /\ SetLocals(PopScalar(G, var.value_opts))
    /\ UNCHANGED <<var, pc, assignment, result>>
    /\ SerOnly

StepDesignator ==
    /\ InLoop /\ IsDesignator(Top(stack))
    /\ LET g == PopDesignator(G) IN
        /\ SetLocals(g)
        /\ pc' = IF g.raised THEN "raised" ELSE pc
    /\ UNCHANGED <<var, assignment, result>>
    /\ SerOnly

\* a popped value of no known type: only the leading-comma test acts on it
StepOther ==
    /\ InLoop
    /\ Top(stack).k \in {"none", "complex"}
    /\ SetLocals(PopOther(G))
    /\ UNCHANGED <<var, pc, assignment, result>>
    /\ SerOnly

\* lines 291 and 307-327: the loop ends, the string is put together
ReturnInitialization ==
    /\ pc = "loop" /\ stack = <<>>
    /\ assignment' = assignment \o output
    /\ result' = InitString(var, assignment')
    /\ pc' = "done"
    /\ UNCHANGED <<var, stack, output, depth, leading_comma>>
    /\ SerOnly

SerNext ==
    \/ QualifiersRaise
    \/ EnterGenerateArray
    \/ SingleVar
    \/ StepArray
    \/ StepStruct
    \/ StepClosedBrace
    \/ StepOpenBrace
    \/ StepScalar
    \/ StepDesignator
    \/ StepOther
    \/ ReturnInitialization

SpecSer == SerInit /\ [][SerNext]_vars

----------------------------------------------------------------------------
(* Reference rendering of an initializer, used to state C1 and C2 *)

\* the text without its whitespace tokens
Strip(txt) == SelectSeq(txt, LAMBDA t : t \notin Whitespace)

RECURSIVE CommaJoin(_)
CommaJoin(parts) ==
    IF parts = <<>> THEN <<>>
    ELSE IF Len(parts) = 1 THEN parts[1]
    ELSE parts[1] \o <<",">> \o CommaJoin(Tail(parts))

\* R(leaf) = its literal; R([e1..en]) = { R(e1) , ... , R(en) };
\* R({n1: v1, ...}) = { .n1 = R(v1) , ... } in insertion order
RECURSIVE RefRender(_, _)
RefRender(v, fmt) ==
    IF IsAnyArrayValue(v)
    THEN <<"{">> \o CommaJoin([i \in 1..Len(v.e) |-> RefRender(v.e[i], fmt)]) \o <<"}">>
    ELSE IF IsAnyStructValue(v)
    THEN <<"{">>
         \o CommaJoin([i \in 1..Len(v.f) |->
                          <<".", v.f[i][1].s, "=">> \o RefRender(v.f[i][2], fmt)])
         \o <<"}">>
    ELSE IF v.k = "int" /\ fmt = None THEN StrInt(v.i)
    ELSE generate_single_var(v, fmt)

\* a nested array whose leaves are all integers
RECURSIVE IsIntArray(_)
IsIntArray(v) ==
    /\ IsAnyArrayValue(v)
    /\ \A i \in 1..Len(v.e) : v.e[i].k = "int" \/ IsIntArray(v.e[i])

\* every leaf is of a supported type and every dict key is text
RECURSIVE Supported(_)
Supported(v) ==
    IF IsAnyArrayValue(v) THEN \A i \in 1..Len(v.e) : Supported(v.e[i])
    ELSE IF IsAnyStructValue(v)
    THEN \A i \in 1..Len(v.f) : IsStr(v.f[i][1]) /\ Supported(v.f[i][2])
    ELSE IsScalar(v)

RECURSIVE HasRecord(_)
HasRecord(v) ==
    IF IsAnyArrayValue(v) THEN \E i \in 1..Len(v.e) : HasRecord(v.e[i])
    ELSE IsAnyStructValue(v)

\* a leaf of a type the library does not know, anywhere in v (a bare None is "no value")
RECURSIVE HasUnsupportedLeaf(_)
HasUnsupportedLeaf(v) ==
    IF IsAnyArrayValue(v) THEN \E i \in 1..Len(v.e) : HasUnsupportedLeaf(v.e[i])
    ELSE IF IsAnyStructValue(v) THEN \E i \in 1..Len(v.f) : HasUnsupportedLeaf(v.f[i][2])
    ELSE ~IsScalar(v)
ContainsUnsupported(v) == IF IsComposite(v) THEN HasUnsupportedLeaf(v) ELSE v = ComplexV

\* the dict keys of v in insertion order, depth first
RECURSIVE KeysOf(_)
KeysOf(v) ==
    IF IsAnyArrayValue(v) THEN Flatten([i \in 1..Len(v.e) |-> KeysOf(v.e[i])])
    ELSE IF IsAnyStructValue(v)
    THEN Flatten([i \in 1..Len(v.f) |-> <<v.f[i][1].s>> \o KeysOf(v.f[i][2])])
    ELSE <<>>

\* the names that follow a "." token of the text, in order
RECURSIVE DesignatedNames(_)
DesignatedNames(txt) ==
    IF Len(txt) < 2 THEN <<>>
    ELSE IF Head(txt) = "." THEN <<txt[2]>> \o DesignatedNames(Tail(txt))
    ELSE DesignatedNames(Tail(txt))

\* C1: for a nested array of integer leaves (default number format) the text
\* generate_array returns, without its whitespace, is the reference rendering
\* { e1 , ... , en } with decimal leaves: balanced braces, one comma between
\* siblings, none before a closing brace; and an empty array alone gives
\* exactly {} with no newline inside.
C1_ArrayRendering ==
    (pc = "done" /\ IsIntArray(var.value) /\ var.value_opts = None)
        => /\ Strip(output) = RefRender(var.value, None)
           /\ (var.value.e = <<>> => output = <<"{", "}">>)

C1_Witness ==
    /\ pc = "done"
    /\ var.value = ListV(<<ListV(<<IntV(-1), IntV(12)>>), ListV(<<IntV(12), IntV(-1)>>)>>)
    /\ Strip(output) = <<"{", "{", "-", "1", ",", "1", "2", "}", ",",
                         "{", "1", "2", ",", "-", "1", "}", "}">>

\* C2: for a value holding records (leaves of supported types) the serializer
\* emits one designated initializer .name = value per field, in insertion
\* order, one comma between consecutive fields and none after the last; the
\* designators appear in the insertion order of the keys, so a different
\* insertion order gives the correspondingly different output order.
C2_RecordRendering ==
    (pc = "done" /\ IsComposite(var.value) /\ HasRecord(var.value) /\ Supported(var.value))
        => /\ Strip(output) = RefRender(var.value, var.value_opts)
           /\ DesignatedNames(output) = KeysOf(var.value)

C2_Witness ==
    /\ pc = "done"
    /\ var.value = DictV(<< <<StrV("b"), ListV(<<IntV(12)>>)>>, <<StrV("a"), IntV(-1)>> >>)
    /\ DesignatedNames(output) = <<"b", "a">>

\* C5: initialization of a value that contains a leaf of an unsupported type
\* never returns text (it fails with an error).
C5_UnsupportedLeafRaises ==
    pc = "done" => ~ContainsUnsupported(var.value)

\* The interpreter runs the call to its end: every enabled step is taken.
SpecSerLive == SerInit /\ [][SerNext]_vars /\ WF_vars(SerNext)

\* how many tokens of txt are the token t
RECURSIVE Count(_, _)
Count(txt, t) ==
    IF txt = <<>> THEN 0 ELSE (IF Head(txt) = t THEN 1 ELSE 0) + Count(Tail(txt), t)

\* every dict key of v is text
RECURSIVE TextKeys(_)
TextKeys(v) ==
    IF IsAnyArrayValue(v) THEN \A i \in 1..Len(v.e) : TextKeys(v.e[i])
    ELSE IF IsAnyStructValue(v)
    THEN \A i \in 1..Len(v.f) : IsStr(v.f[i][1]) /\ TextKeys(v.f[i][2])
    ELSE TRUE

DepthIsOpenBraces ==
    /\ depth >= 0
    /\ depth = Count(output, "{") - Count(output, "}")

\* C11: for every value tree (text keys) the work loop of generate_array ends
\* with an empty stack; at every point of the run the depth counter is not
\* negative and equals the number of { emitted so far minus the number of }
\* emitted so far; it is 0 again when the loop has ended.
C11_LoopTerminatesDepthBalanced ==
    /\ [](DepthIsOpenBraces)
    /\ []((pc = "done" /\ IsComposite(var.value)) => (stack = <<>> /\ depth = 0))
    /\ ((pc = "start" /\ ~QualRaises(var) /\ TextKeys(var.value)) ~> (pc = "done"))

C11_Witness ==
    /\ pc = "done"
    /\ var.value = ListV(<<ListV(<<IntV(-1), IntV(12)>>), ListV(<<IntV(12), IntV(-1)>>)>>)
    /\ stack = <<>> /\ depth = 0
    /\ Count(output, "{") = 3 /\ Count(output, "}") = 3

\* C12: whenever a Designator is popped, no leading comma ", " is emitted for
\* it: the output just before the designator's newline ends with the { of its
\* record or with the , of the preceding closing brace, also when the field
\* before it holds a scalar (values whose leaves are all of supported types).
C12_NoLeadingCommaBeforeDesignator ==
    [][(InLoop /\ IsDesignator(Top(stack)) /\ Supported(var.value))
          => /\ output # <<>>
             /\ output[Len(output)] \in {"{", ","}
             /\ output'[Len(output) + 1] = LF]_vars

----------------------------------------------------------------------------
(* shape, Variable.__array_dimensions and Variable.declaration as single   *)
(* calls on a drawn Variable                                                *)

DimVectors == ListsOf(SeqsUpTo({IntV(0), IntV(2), IntV(3)}, MaxLen))
ArrayArgs == {None, IntV(5)} \cup DimVectors
DeclValues ==
    Scalars \cup FlatValues \cup ListsOf(UpToPairs(MidValues)) \cup ChainValues \cup NdValues
DeclPrimitives ==
    {StrV("int")}
    \cup {FuncPtr("void", a) :
            a \in {None, ListV(<<>>), ListV(<<StrV("int")>>), ListV(<<StrV("int"), StrV("char")>>)}}
DeclVariables ==
    {Variable("x", StrV("int"), None, None, None, v, None) : v \in DeclValues}
    \cup {Variable("x", p, q, a, None, v, None) :
            p \in DeclPrimitives, q \in Qualifiers, a \in ArrayArgs,
            v \in {None, IntV(12), StrV("hi"), ListV(<<IntV(-1), IntV(12)>>),
                   ListV(<<ListV(<<IntV(12)>>), ListV(<<IntV(-1)>>)>>), Zeros(<<0, 2>>)}}

SerIdle ==
    /\ var = None /\ pc = "idle" /\ stack = <<>> /\ output = <<>> /\ depth = 0
    /\ leading_comma = FALSE /\ assignment = <<>> /\ result = <<>>

DeclOnly == UNCHANGED <<serVars, subVars, writerVars>>

DeclInit ==
    /\ SerIdle /\ SubIdle /\ WriterIdle
    /\ decl_self \in DeclVariables
    /\ decl_op = <<>>
    /\ decl_ret = <<>>

CallShape ==
    /\ decl_op = <<>>
    /\ decl_op' = <<"shape">>
    /\ decl_ret' = shape(decl_self.value)
    /\ UNCHANGED decl_self
    /\ DeclOnly

CallArrayDimensions ==
    /\ decl_op = <<>>
    /\ decl_op' = <<"array_dimensions">>
    /\ decl_ret' = array_dimensions(decl_self)
    /\ UNCHANGED decl_self
    /\ DeclOnly

CallDeclaration ==
    /\ decl_op = <<>>
    /\ \E extern \in BOOLEAN :
        /\ decl_op' = <<"declaration", extern>>
        /\ decl_ret' = declaration(decl_self, extern)
    /\ UNCHANGED decl_self
    /\ DeclOnly

DeclNext ==
    \/ CallShape
    \/ CallArrayDimensions
    \/ CallDeclaration

SpecDecl == DeclInit /\ [][DeclNext]_vars

\* the vector the claim describes: one length per nesting level, following the
\* first element, a 0 at an empty array, nothing for a record or scalar
RECURSIVE Descent(_)
Descent(v) ==
    IF ~IsAnyArrayValue(v) THEN <<>>
    ELSE IF v.e = <<>> THEN <<0>>
    ELSE <<Len(v.e)>> \o Descent(v.e[1])

\* per-axis lengths, read along the last elements
RECURSIVE AxisLengths(_)
AxisLengths(v) ==
    IF ~IsAnyArrayValue(v) THEN <<>>
    ELSE IF v.e = <<>> THEN <<0>>
    ELSE <<Len(v.e)>> \o AxisLengths(v.e[Len(v.e)])

\* every element of an array has the same axis lengths, at every level
RECURSIVE IsRectangular(_)
IsRectangular(v) ==
    IsAnyArrayValue(v) =>
        \A i \in 1..Len(v.e) :
            /\ IsRectangular(v.e[i])
            /\ AxisLengths(v.e[i]) = AxisLengths(v.e[1])

\* C3 as claimed: shape(v) is the first-element descent vector for every value v.
C3_ShapeIsDescent ==
    decl_op = <<"shape">> => decl_ret = Descent(decl_self.value)

\* C3 as amended: for every value that is not a numpy ndarray shape(v) is the
\* first-element descent vector (empty for a scalar or text, the per-axis
\* lengths for a rectangular array, unaffected by the elements after the
\* first); for an ndarray it is the array's own shape attribute.
C3_ShapeAmended ==
    decl_op = <<"shape">> =>
        LET v == decl_self.value IN
        /\ v.k = "nd" => decl_ret = v.shp
        /\ v.k # "nd" =>
            /\ decl_ret = Descent(v)
            /\ IsRectangular(v) => decl_ret = AxisLengths(v)
            /\ ~IsComposite(v) => decl_ret = <<>>
            /\ v.k = "arr" =>
                \A i \in 2..Len(v.e) :
                    \A w \in {IntV(0), ListV(<<>>), ListV(<<IntV(1), IntV(1), IntV(1)>>)} :
                        shape([v EXCEPT !.e[i] = w]) = decl_ret

C3_Witness ==
    /\ decl_op = <<"shape">>
    /\ decl_self.value = ListV(<<ListV(<<IntV(-1), IntV(12)>>), ListV(<<>>)>>)
    /\ decl_ret = <<2, 2>>

\* "[d]" for each entry of a vector of naturals
RECURSIVE RefBrackets(_)
RefBrackets(dims) ==
    IF dims = <<>> THEN <<>> ELSE <<"[">> \o DecNat(Head(dims)) \o <<"]">> \o RefBrackets(Tail(dims))

IntsOf(list) == [i \in 1..Len(list.e) |-> list.e[i].i]
BracketCount(txt) == Len(SelectSeq(txt, LAMBDA t : t = "["))

\* C4: the array suffix follows a strict priority: an explicit dimension
\* vector gives one [d] per entry whatever the value is; otherwise a text value
\* gives one unsized []; otherwise the inferred shape gives one bracket per
\* axis; otherwise the suffix is empty.  The suffix from an inferred shape
\* equals the suffix from the same vector given explicitly.
C4_ArraySuffixPriority ==
    decl_op = <<"array_dimensions">> =>
        LET s == decl_self IN
        /\ IsAnyArrayValue(s.array) =>
            /\ decl_ret = RefBrackets(IntsOf(s.array))
            /\ BracketCount(decl_ret) = Len(s.array.e)
        /\ s.array = IntV(5) => decl_ret = <<"[", "5", "]">>
        /\ (s.array = None /\ IsStr(s.value)) => decl_ret = <<"[", "]">>
        /\ (s.array = None /\ ~IsStr(s.value)) =>
            /\ decl_ret = RefBrackets(shape(s.value))
            /\ BracketCount(decl_ret) = Len(shape(s.value))
            /\ decl_ret = array_dimensions([s EXCEPT !.array = ListV(ShapeDims(s.value))])

C4_Witness ==
    /\ decl_op = <<"array_dimensions">>
    /\ decl_self.array = ListV(<<IntV(3), IntV(2)>>)
    /\ decl_self.value = StrV("hi")
    /\ decl_ret = <<"[", "3", "]", "[", "2", "]">>

\* C6: a Variable whose primitive is a function pointer declares as
\* <return> (*<name>)(<params>), <params> being the comma-joined parameter
\* types in order, or the word void when there are none.
C6_FuncPtrDeclaration ==
    (/\ decl_op = <<"declaration", FALSE>>
     /\ IsFuncPtr(decl_self.primitive)
     /\ decl_self.qualifiers = None /\ decl_self.array = None /\ decl_self.value = None)
        => LET fp == decl_self.primitive
               params == IF fp.args = None \/ fp.args.e = <<>> THEN <<"void">>
                         ELSE Join(fp.args.e, <<",", " ">>)
           IN /\ ~decl_ret.raised
              /\ decl_ret.text = <<fp.return_type, " ", "(", "*", decl_self.name, ")", "(">>
                                 \o params \o <<")">>

----------------------------------------------------------------------------
(* Subscript, lines 410-442.  The three checks of __init__ all raise       *)
(* TypeError; they are told apart here by the condition that raises them.  *)

\* lines 413-430
Subscript_init(target, subscript) ==
    IF ~IsModifier(target)
    THEN [raised |-> "InvalidModifierTarget", self |-> None]
    ELSE IF ~(IsAnyInt(subscript) \/ IsModifier(subscript) \/ IsAnyArrayValue(subscript))
    THEN [raised |-> "InvalidSubscriptIndex", self |-> None]
    ELSE IF ~Truthy(subscript)
    THEN [raised |-> "EmptySubscript", self |-> None]
    ELSE [raised |-> "",
          self |-> [k |-> "Subscript", target |-> target,
                    subscript |-> IF IsAnyInt(subscript) \/ IsModifier(subscript)
                                  THEN <<subscript>> ELSE subscript.e]]

\* lines 436-440
RECURSIVE ret_str(_)
ret_str(dims) ==
    IF dims = <<>> THEN <<>>
    ELSE LET dim == Head(dims) IN
         (IF IsAnyInt(dim) \/ IsStr(dim) THEN <<"[">> \o Str(dim) \o <<"]">>
          ELSE IF IsModifier(dim) THEN <<"[", dim.name, "]">>
          ELSE <<>>)
         \o ret_str(Tail(dims))

\* lines 432-442
Subscript_name(self) == <<self.target.name>> \o ret_str(self.subscript)

SubIndexes == {IntV(0), IntV(1), StrV("i"), ModV("i"), FloatV("1.5")}
SubscriptArgs == SubIndexes \cup {IntV(-1)} \cup ListsOf(SeqsUpTo(SubIndexes, MaxLen))
SubTargets == {ModV("arr"), ModV("*p"), StrV("arr")}

SubOnly == UNCHANGED <<serVars, declVars, writerVars>>

SubInit ==
    /\ SerIdle /\ DeclIdle /\ WriterIdle
    /\ sub_pc = "new"
    /\ sub_target = None
    /\ sub_subscript = None
    /\ sub_self = None
    /\ sub_raised = ""
    /\ sub_name = <<>>

Construct ==
    /\ sub_pc = "new"
    /\ \E target \in SubTargets, subscript \in SubscriptArgs :
        LET r == Subscript_init(target, subscript) IN
        /\ sub_target' = target
        /\ sub_subscript' = subscript
        /\ sub_self' = r.self
        /\ sub_raised' = r.raised
        /\ sub_pc' = IF r.raised = "" THEN "built" ELSE "raised"
    /\ UNCHANGED sub_name
    /\ SubOnly

ReadName ==
    /\ sub_pc = "built"
    /\ sub_name' = Subscript_name(sub_self)
    /\ sub_pc' = "named"
    /\ UNCHANGED <<sub_target, sub_subscript, sub_self, sub_raised>>
    /\ SubOnly

SubNext ==
    \/ Construct
    \/ ReadName

SpecSub == SubInit /\ [][SubNext]_vars

\* the indices the caller supplied: the elements of a list, or the one index
IndicesOf(subscript) == IF IsAnyArrayValue(subscript) THEN subscript.e ELSE <<subscript>>
IsIndex(x) == x.k = "int" \/ IsStr(x) \/ IsModifier(x)

\* C7: on a valid target the constructor fails with the empty-subscript error
\* exactly when zero indices are supplied; a single integer index (0 included)
\* or a single expression index is accepted and renders one bracket per index.
C7_EmptyIffNoIndices ==
    (sub_pc \in {"built", "raised", "named"} /\ IsModifier(sub_target)) =>
        /\ sub_raised = "EmptySubscript" <=> IndicesOf(sub_subscript) = <<>>
        /\ (sub_subscript.k = "int" \/ IsModifier(sub_subscript)) => sub_raised = ""

\* C8: an index that is not an integer, text or expression, alone or as an
\* element of the index list, makes the constructor fail with
\* InvalidSubscriptIndex, so a constructed Subscript renders as many brackets
\* as it has indices.
C8_InvalidIndexRaises ==
    (sub_pc \in {"built", "raised", "named"} /\ IsModifier(sub_target)) =>
        /\ (\E i \in 1..Len(IndicesOf(sub_subscript)) : ~IsIndex(IndicesOf(sub_subscript)[i]))
              => sub_raised = "InvalidSubscriptIndex"
        /\ sub_pc = "named" => BracketCount(sub_name) = Len(IndicesOf(sub_subscript))

----------------------------------------------------------------------------
(* CodeWriter, lines 608-946.  w is the record of the writer's fields; a   *)
(* method is an operator from w (and its arguments) to w after the call.   *)
(* w.raised names the exception that left the method, "" when it returned. *)
(* A str with several lines is a sequence of lines (splitlines), each line *)
(* a sequence of tokens; the empty line is <<>>.                           *)

CPP == "__cplusplus"
VERSION == "1.1"

\* lines 615-629 (lf="\n", indent=4)
NewWriter ==
    [text |-> <<>>, tabs |-> 0, commenting |-> FALSE, defs |-> <<>>, switch |-> <<>>,
     raised |-> ""]

\* mutant: the text is assigned, not appended (line 792)
add_Overwrite(w, text_) == [w EXCEPT !.text = text_]

\* lines 790-792
add(w, text_) == [w EXCEPT !.text = @ \o text_]

\* lines 794-821; text_ = <<>> is None or '', comment is None or a str
add_line(w, text_, comment, ignore_tabs) ==
    IF text_ = <<>> /\ ~Truthy(comment) /\ ~w.commenting
    THEN add(w, <<LF>>)
    ELSE LET w1 == IF ~ignore_tabs /\ ~w.commenting THEN add(w, Times(Indent, w.tabs)) ELSE w
             w2 == IF w.commenting THEN add(w1, <<"* ">>) ELSE w1
             w3 == IF text_ # <<>> THEN add(w2, text_) ELSE w2
             w4 == IF Truthy(comment)
                   THEN add(IF text_ # <<>> THEN add(w3, <<" ">>) ELSE w3, <<"//", comment.s>>)
                   ELSE w3
         IN add(w4, <<LF>>)

\* lines 631-633
tab_in(w) == [w EXCEPT !.tabs = @ + 1]
\* lines 635-639
tab_out(w) == IF w.tabs > 0 THEN [w EXCEPT !.tabs = @ - 1] ELSE w
\* lines 641-642
reset_tabs(w) == [w EXCEPT !.tabs = 0]

\* lines 644-647
start_comment(w) == [add_line(w, <<"/*">>, None, FALSE) EXCEPT !.commenting = TRUE]
\* lines 649-652
end_comment(w) == add_line([w EXCEPT !.commenting = FALSE], <<"*/">>, None, FALSE)

\* add_line(line) for each line, an empty line as add_line()
RECURSIVE add_lines(_, _)
add_lines(w, lines) ==
    IF lines = <<>> THEN w ELSE add_lines(add_line(w, Head(lines), None, FALSE), Tail(lines))

\* lines 654-670
add_autogen_comment(w, source) ==
    LET w1 == start_comment(w)
        w2 == add_line(w1, <<"This file was autogenerated using the C-Snake v", VERSION,
                             " script">>, None, FALSE)
        w3 == add_line(w2, <<"This file should not be edited directly, any changes will be overwritten next time the script is run">>,
                       None, FALSE)
        w4 == IF Truthy(source)
              THEN add_line(w3, <<"Make any changes to the file '">> \o Str(source) \o <<"'">>,
                            None, FALSE)
              ELSE w3
        w5 == add_line(w4, <<"Source code for C-Snake available at https://github.com/SchrodingersGat/C-Snake">>,
                       None, FALSE)
    IN end_comment(w5)

\* lines 685-691: one Copyright line per author
RECURSIVE add_authors(_, _, _)
add_authors(w, year, authors) ==
    IF authors = <<>> THEN w
    ELSE LET author == Head(authors)
             email == IF Truthy(author.email) THEN <<" <", author.email.s, ">">> ELSE <<>>
         IN add_authors(
                add_line(w, <<"Copyright © ">> \o StrInt(year) \o <<" ", author.name>> \o email,
                         None, FALSE),
                year, Tail(authors))

\* lines 672-700; license_ and intro are None or [k |-> "text", lines |-> ...],
\* year is date.today().year
add_license_comment(w, license_, authors, intro, year) ==
    LET w1 == start_comment(w)
        w2 == IF intro # None THEN add_lines(w1, intro.lines) ELSE w1
        w3 == add_authors(w2, year, authors)
        w4 == add_line(w3, <<>>, None, FALSE)
    IN IF license_.k # "text" THEN [w4 EXCEPT !.raised = "TypeError"]
       ELSE end_comment(add_lines(w4, license_.lines))

\* lines 702-705
open_brace(w) == tab_in(add_line(w, <<"{">>, None, FALSE))

\* lines 707-713
close_brace(w, new_line) ==
    LET w1 == tab_out(w)
        w2 == add(w1, Times(Indent, w1.tabs) \o <<"}">>)
    IN IF new_line THEN add_line(w2, <<>>, None, FALSE) ELSE w2

\* lines 715-722
define(w, name, value, comment) ==
    add_line(w, <<"#define ", name>> \o (IF Truthy(value) THEN <<" ">> \o Str(value) ELSE <<>>),
             comment, TRUE)

\* lines 724-733; invert is any Python value, tested for truth
start_if_def(w, define_, invert, comment) ==
    LET w1 == [w EXCEPT !.defs = Append(@, define_)] IN
    IF Truthy(invert) THEN add_line(w1, <<"#ifndef ", define_>>, comment, TRUE)
    ELSE add_line(w1, <<"#ifdef ", define_>>, comment, TRUE)

\* lines 735-741
end_if_def(w) ==
    IF w.defs # <<>>
    THEN add_line([w EXCEPT !.defs = Pop(@)], <<"#endif ">>, StrV(Top(w.defs)), TRUE)
    ELSE add_line(w, <<"#endif">>, None, TRUE)

\* lines 743-747: the second positional argument of start_if_def is invert
cpp_entry(w) ==
    end_if_def(add_line(start_if_def(w, CPP, StrV("Play nice with C++ compilers"), None),
                        <<"extern \"C\" {">>, None, TRUE))

\* lines 749-752
cpp_exit(w) ==
    end_if_def(add_line(start_if_def(w, CPP, StrV("Done playing nice with C++ compilers"), None),
                        <<"}">>, None, TRUE))

\* lines 754-758
start_switch(w, switch_) ==
    open_brace(add_line([w EXCEPT !.switch = Append(@, switch_)],
                        <<"switch (", switch_, ")">>, None, FALSE))

\* lines 760-767
end_switch(w) ==
    LET w1 == add(tab_out(w), <<"}">>)
        w2 == IF w1.switch # <<>>
              THEN add([w1 EXCEPT !.switch = Pop(@)], <<" // ~switch (", Top(w1.switch), ")">>)
              ELSE w1
    IN add_line(w2, <<>>, None, FALSE)

\* lines 769-772
add_case(w, case, comment) == tab_in(add_line(w, <<"case ", case, ":">>, comment, FALSE))
\* lines 774-777
add_default(w, comment) == tab_in(add_line(w, <<"default:">>, comment, FALSE))
\* lines 779-782
break_from_case(w) == tab_out(add_line(w, <<"break;">>, None, FALSE))
\* lines 784-788
return_from_case(w, value) ==
    tab_out(add_line(w, <<"return">> \o (IF Truthy(value) THEN <<" ">> \o Str(value) ELSE <<>>)
                        \o <<";">>, None, FALSE))

\* lines 823-828
include(w, file, comment) == add_line(w, <<"#include ", file>>, comment, TRUE)

Raise(w, exception) == [w EXCEPT !.raised = exception]

\* Enum, lines 73-96
EnumValue(name, value, comment) == [name |-> name, value |-> value, comment |-> comment]
Enum(name, prefix, typedef, values) ==
    [k |-> "Enum", name |-> name, prefix |-> prefix, typedef |-> typedef, values |-> values]

\* lines 842-851: the enum's values from the i-th on
RECURSIVE add_enum_values(_, _, _)
add_enum_values(w, enum, i) ==
    IF i > Len(enum.values) THEN w
    ELSE LET v == enum.values[i]
             line == <<enum.prefix, v.name>>
                     \o (IF Truthy(v.value) THEN <<" = ">> \o Str(v.value) ELSE <<>>)
                     \o (IF i < Len(enum.values) THEN <<",">> ELSE <<>>)
         IN add_enum_values(add_line(w, line, v.comment, FALSE), enum, i + 1)

\* lines 830-859
add_enum(w, enum) ==
    IF enum.k # "Enum" THEN Raise(w, "TypeError")
    ELSE LET w1 == IF enum.typedef THEN add_line(w, <<"typedef enum">>, None, FALSE)
                   ELSE add_line(w, <<"enum ", enum.name>>, None, FALSE)
             w2 == add_enum_values(open_brace(w1), enum, 1)
             w3 == close_brace(w2, FALSE)
             w4 == IF enum.typedef THEN add(w3, <<" ", enum.name, ";">>) ELSE add(w3, <<";">>)
         IN add_line(w4, <<>>, None, FALSE)

\* lines 861-867
add_variable_declaration(w, var_, extern) ==
    IF ~IsVariable(var_) THEN Raise(w, "TypeError")
    ELSE LET d == declaration(var_, extern) IN
         IF d.raised THEN Raise(w, "TypeError")
         ELSE add_line(w, d.text \o <<";">>, var_.comment, FALSE)

\* str.splitlines() of a text that does not end with a line feed
RECURSIVE splitlines(_, _)
splitlines(txt, line) ==
    IF txt = <<>> THEN <<line>>
    ELSE IF Head(txt) = LF THEN <<line>> \o splitlines(Tail(txt), <<>>)
    ELSE splitlines(Tail(txt), Append(line, Head(txt)))

\* mutant: the declaration line is written before the value is serialized
add_variable_initialization_Early(w, var_) ==
    IF ~IsVariable(var_) THEN Raise(w, "TypeError")
    ELSE LET init == initialization(var_) IN
         IF init.raised
         THEN Raise(add_line(w, <<var_.name, " ", "=">>, var_.comment, FALSE), "TypeError")
         ELSE LET initlines == splitlines(init.text, <<>>)
                  w1 == add_line(w, initlines[1], var_.comment, FALSE)
              IN IF Len(initlines) > 1
                 THEN tab_out(add_lines(tab_in(w1), Tail(initlines)))
                 ELSE w1

\* lines 869-883
add_variable_initialization(w, var_) ==
    IF ~IsVariable(var_) THEN Raise(w, "TypeError")
    ELSE LET init == initialization(var_) IN
         IF init.raised THEN Raise(w, "TypeError")
         ELSE LET initlines == splitlines(init.text, <<>>)
                  w1 == add_line(w, initlines[1], var_.comment, FALSE)
              IN IF Len(initlines) > 1
                 THEN tab_out(add_lines(tab_in(w1), Tail(initlines)))
                 ELSE w1

\* Struct, lines 330-344
Struct(name, typedef, variables) ==
    [k |-> "Struct", name |-> name, typedef |-> typedef, variables |-> variables]

\* lines 897-899: the declarations of the struct's variables, until one raises
RECURSIVE add_struct_variables(_, _)
add_struct_variables(w, variables) ==
    IF variables = <<>> \/ w.raised # "" THEN w
    ELSE add_struct_variables(add_variable_declaration(w, Head(variables), FALSE),
                              Tail(variables))

\* lines 885-907
add_struct(w, struct) ==
    IF struct.k # "Struct" THEN Raise(w, "TypeError")
    ELSE LET w1 == IF struct.typedef THEN add_line(w, <<"typedef struct">>, None, FALSE)
                   ELSE add_line(w, <<"struct ", struct.name>>, None, FALSE)
             w2 == add_struct_variables(open_brace(w1), struct.variables)
         IN IF w2.raised # "" THEN w2
            ELSE LET w3 == close_brace(w2, FALSE)
                     w4 == IF struct.typedef THEN add(w3, <<" ", struct.name, ";">>)
                           ELSE add(w3, <<";">>)
                 IN add_line(w4, <<>>, None, FALSE)

\* Function, lines 545-602; code is the function's body, line by line
Function(name, return_type, qualifiers, variables, code) ==
    [k |-> "Function", name |-> name, return_type |-> return_type, qualifiers |-> qualifiers,
     variables |-> variables, code |-> code]

RECURSIVE JoinTexts(_, _)
JoinTexts(texts, sep) ==
    IF texts = <<>> THEN <<>>
    ELSE IF Len(texts) = 1 THEN texts[1]
    ELSE texts[1] \o sep \o JoinTexts(Tail(texts), sep)

\* lines 566-576
prototype(self) ==
    IF \E i \in 1..Len(self.variables) : declaration(self.variables[i], FALSE).raised
    THEN [raised |-> TRUE, text |-> <<>>]
    ELSE [raised |-> FALSE,
          text |-> (IF self.qualifiers # <<>>
                    THEN JoinTexts([i \in 1..Len(self.qualifiers) |-> <<self.qualifiers[i]>>],
                                   <<" ">>) \o <<" ">>
                    ELSE <<>>)
                   \o <<self.return_type, " ", self.name, "(">>
                   \o (IF self.variables # <<>>
                       THEN JoinTexts([i \in 1..Len(self.variables) |->
                                          declaration(self.variables[i], FALSE).text],
                                      <<",", " ">>)
                       ELSE <<"void">>)
                   \o <<")">>]

\* lines 592-602
call(self, arg) ==
    IF Len(arg) # Len(self.variables) THEN [raised |-> TRUE, text |-> <<>>]
    ELSE [raised |-> FALSE,
          text |-> <<self.name, "(">>
                   \o JoinTexts([i \in 1..Len(arg) |-> Str(arg[i])], <<",", " ">>)
                   \o <<");">>]

\* lines 909-917
add_function_prototype(w, func, extern, comment) ==
    IF func.k # "Function" THEN Raise(w, "TypeError")
    ELSE LET p == prototype(func) IN
         IF p.raised THEN Raise(w, "TypeError")
         ELSE add_line(w, (IF extern THEN <<"extern">> ELSE <<>>) \o p.text \o <<";">>,
                       comment, FALSE)

\* lines 919-933
add_function_definition(w, func, comment) ==
    IF func.k # "Function" THEN Raise(w, "TypeError")
    ELSE LET p == prototype(func) IN
         IF p.raised THEN Raise(w, "TypeError")
         ELSE close_brace(add_lines(open_brace(add_line(w, p.text, comment, FALSE)), func.code),
                          TRUE)

\* lines 935-941
call_function(w, func, arg) ==
    IF func.k # "Function" THEN Raise(w, "TypeError")
    ELSE LET c == call(func, arg) IN
         IF c.raised THEN Raise(w, "ValueError")
         ELSE add_line(w, c.text, None, FALSE)

----------------------------------------------------------------------------
(* A CodeWriter and the calls made on it: one action per method *)

TextV(lines) == [k |-> "text", lines |-> lines]

WriterComments == {None, StrV("note")}
WriterVariables ==
    {PlainVar(IntV(12), None),
     PlainVar(ListV(<<ListV(<<IntV(-1)>>), ListV(<<IntV(12)>>)>>), None),
     PlainVar(DictV(<< <<StrV("a"), IntV(12)>>, <<StrV("b"), ListV(<<IntV(0)>>)>> >>), None),
     Variable("cb", FuncPtr("void", ListV(<<StrV("int")>>)), StrV("static"), None,
              StrV("note"), None, None),
     \* " ".join raises on the qualifier 1
     Variable("x", StrV("int"), ListV(<<StrV("static"), IntV(1)>>), None, None, IntV(12), None),
     \* '.' + name raises on the key 1, after the first field has been put out
     PlainVar(DictV(<< <<StrV("a"), IntV(12)>>, <<IntV(1), IntV(0)>> >>), None)}
NotVariables == {StrV("x")}

WriterEnums ==
    {Enum("color", "C_", td,
          <<EnumValue("RED", IntV(1), None), EnumValue("BLUE", None, StrV("note"))>>) :
        td \in BOOLEAN}
    \cup {Enum("empty", "", FALSE, <<>>)}
WriterStructs ==
    {Struct("point", td, <<PlainVar(None, None),
                           Variable("y", StrV("int"), None, IntV(5), None, None, None)>>) :
        td \in BOOLEAN}
    \cup {Struct("bad", FALSE,
                 <<PlainVar(None, None),
                   Variable("y", StrV("int"), ListV(<<IntV(1)>>), None, None, None, None)>>)}
WriterFunctions ==
    {Function("f", "void", <<>>, <<>>, <<>>),
     Function("g", "int", <<"static">>,
              <<Variable("a", StrV("int"), None, None, None, None, None),
                Variable("b", StrV("char"), StrV("const"), None, None, None, None)>>,
              << <<"a = 1;">>, <<>>, <<"return a;">> >>),
     Function("h", "int", <<>>,
              <<Variable("a", StrV("int"), ListV(<<IntV(1)>>), None, None, None, None)>>, <<>>)}
CallArgs == {<<>>, <<IntV(1), IntV(12)>>}
Years == {2018}

W == [text |-> text, tabs |-> tabs, commenting |-> commenting, defs |-> defs,
      switch |-> switch, raised |-> ""]

\* the call c was made and left the writer as w
Returns(c, w) ==
    /\ ncalls' = ncalls + 1
    /\ called' = c
    /\ text' = w.text
    /\ tabs' = w.tabs
    /\ commenting' = w.commenting
    /\ defs' = w.defs
    /\ switch' = w.switch
    /\ raised' = w.raised
    /\ UNCHANGED <<serVars, declVars, subVars>>

WriterInit ==
    /\ SerIdle /\ DeclIdle /\ SubIdle
    /\ text = NewWriter.text
    /\ tabs = NewWriter.tabs
    /\ commenting = NewWriter.commenting
    /\ defs = NewWriter.defs
    /\ switch = NewWriter.switch
    /\ called = <<>>
    /\ raised = ""
    /\ ncalls = 0

Add ==
    /\ ncalls < MaxCalls
    /\ \E t \in {<<"int y;">>} : Returns(<<"add", t>>, add(W, t))
AddLine ==
    /\ ncalls < MaxCalls
    /\ \E a \in {<<<<>>, None, FALSE>>, <<<<"y = 1;">>, None, FALSE>>,
                 <<<<"y = 1;">>, StrV("note"), FALSE>>, <<<<"y = 1;">>, None, TRUE>>,
                 <<<<>>, StrV("note"), FALSE>>} :
           Returns(<<"add_line", a>>, add_line(W, a[1], a[2], a[3]))
TabIn ==
    /\ ncalls < MaxCalls
    /\ Returns(<<"tab_in">>, tab_in(W))
TabOut ==
    /\ ncalls < MaxCalls
    /\ Returns(<<"tab_out">>, tab_out(W))
ResetTabs ==
    /\ ncalls < MaxCalls
    /\ Returns(<<"reset_tabs">>, reset_tabs(W))
StartComment ==
    /\ ncalls < MaxCalls
    /\ Returns(<<"start_comment">>, start_comment(W))
EndComment ==
    /\ ncalls < MaxCalls
    /\ Returns(<<"end_comment">>, end_comment(W))
AddAutogenComment ==
    /\ ncalls < MaxCalls
    /\ \E source \in {None, StrV("gen.py")} :
           Returns(<<"add_autogen_comment", source>>, add_autogen_comment(W, source))
AddLicenseComment ==
    /\ ncalls < MaxCalls
    /\ \E license_ \in {TextV(<< <<"MIT License">>, <<"No warranty.">> >>), None},
          intro \in {None, TextV(<< <<"Intro">>, <<>> >>)},
          year \in Years :
           LET authors == <<[name |-> "Ann", email |-> StrV("ann@example.org")],
                            [name |-> "Bob", email |-> None]>>
           IN Returns(<<"add_license_comment", license_, authors, intro>>,
                     add_license_comment(W, license_, authors, intro, year))
OpenBraceCall ==
    /\ ncalls < MaxCalls
    /\ Returns(<<"open_brace">>, open_brace(W))
CloseBraceCall ==
    /\ ncalls < MaxCalls
    /\ \E new_line \in BOOLEAN : Returns(<<"close_brace", new_line>>, close_brace(W, new_line))
Define ==
    /\ ncalls < MaxCalls
    /\ \E value \in {None, IntV(12)}, comment \in WriterComments :
           Returns(<<"define", "N", value, comment>>, define(W, "N", value, comment))
StartIfDef ==
    /\ ncalls < MaxCalls
    /\ \E invert \in {BoolV(FALSE), BoolV(TRUE)} :
           Returns(<<"start_if_def", "GUARD_H", invert>>, start_if_def(W, "GUARD_H", invert, None))
EndIfDef ==
    /\ ncalls < MaxCalls
    /\ Returns(<<"end_if_def">>, end_if_def(W))
CppEntry ==
    /\ ncalls < MaxCalls
    /\ Returns(<<"cpp_entry">>, cpp_entry(W))
CppExit ==
    /\ ncalls < MaxCalls
    /\ Returns(<<"cpp_exit">>, cpp_exit(W))
StartSwitch ==
    /\ ncalls < MaxCalls
    /\ Returns(<<"start_switch", "mode">>, start_switch(W, "mode"))
EndSwitch ==
    /\ ncalls < MaxCalls
    /\ Returns(<<"end_switch">>, end_switch(W))
AddCase ==
    /\ ncalls < MaxCalls
    /\ \E comment \in WriterComments : Returns(<<"add_case", "1", comment>>, add_case(W, "1", comment))
AddDefault ==
    /\ ncalls < MaxCalls
    /\ Returns(<<"add_default">>, add_default(W, None))
BreakFromCase ==
    /\ ncalls < MaxCalls
    /\ Returns(<<"break_from_case">>, break_from_case(W))
ReturnFromCase ==
    /\ ncalls < MaxCalls
    /\ \E value \in {None, IntV(12)} :
           Returns(<<"return_from_case", value>>, return_from_case(W, value))
Include ==
    /\ ncalls < MaxCalls
    /\ Returns(<<"include", "<stdio.h>">>, include(W, "<stdio.h>", None))
AddEnum ==
    /\ ncalls < MaxCalls
    /\ \E enum \in WriterEnums \cup {StrV("color")} : Returns(<<"add_enum", enum>>, add_enum(W, enum))
AddVariableDeclaration ==
    /\ ncalls < MaxCalls
    /\ \E v \in WriterVariables \cup NotVariables, extern \in BOOLEAN :
           Returns(<<"add_variable_declaration", v, extern>>, add_variable_declaration(W, v, extern))
AddVariableInitialization ==
    /\ ncalls < MaxCalls
    /\ \E v \in WriterVariables \cup NotVariables :
           Returns(<<"add_variable_initialization", v>>, add_variable_initialization(W, v))
AddStruct ==
    /\ ncalls < MaxCalls
    /\ \E struct \in WriterStructs \cup {StrV("point")} :
           Returns(<<"add_struct", struct>>, add_struct(W, struct))
AddFunctionPrototype ==
    /\ ncalls < MaxCalls
    /\ \E func \in WriterFunctions \cup {StrV("f")}, extern \in BOOLEAN :
           Returns(<<"add_function_prototype", func, extern>>,
                  add_function_prototype(W, func, extern, None))
AddFunctionDefinition ==
    /\ ncalls < MaxCalls
    /\ \E func \in WriterFunctions \cup {StrV("f")} :
           Returns(<<"add_function_definition", func>>, add_function_definition(W, func, None))
CallFunction ==
    /\ ncalls < MaxCalls
    /\ \E func \in WriterFunctions \cup {StrV("f")}, arg \in CallArgs :
           Returns(<<"call_function", func, arg>>, call_function(W, func, arg))

WriterNext ==
    \/ Add
    \/ AddLine
    \/ TabIn
    \/ TabOut
    \/ ResetTabs
    \/ StartComment
    \/ EndComment
    \/ AddAutogenComment
    \/ AddLicenseComment
    \/ OpenBraceCall
    \/ CloseBraceCall
    \/ Define
    \/ StartIfDef
    \/ EndIfDef
    \/ CppEntry
    \/ CppExit
    \/ StartSwitch
    \/ EndSwitch
    \/ AddCase
    \/ AddDefault
    \/ BreakFromCase
    \/ ReturnFromCase
    \/ Include
    \/ AddEnum
    \/ AddVariableDeclaration
    \/ AddVariableInitialization
    \/ AddStruct
    \/ AddFunctionPrototype
    \/ AddFunctionDefinition
    \/ CallFunction

SpecWriter == WriterInit /\ [][WriterNext]_vars

IsPrefix(a, b) == Len(a) <= Len(b) /\ SubSeq(b, 1, Len(a)) = a

\* C9: the writer's text is append-only: over every call the text before it
\* is a prefix of the text after it.
C9_AppendOnly == [][IsPrefix(text, text')]_vars

C9_Witness ==
    /\ ncalls = 2
    /\ called[1] = "close_brace"
    /\ Len(text) > 2

\* C10: when add_variable_initialization fails (its argument is no Variable, or
\* the serialization of the value or of the qualifiers raises) nothing is
\* appended: text and tab level after the call are those before it.
C10_FailedInitializationAppendsNothing ==
    [][(called'[1] = "add_variable_initialization" /\ raised' # "")
          => (text' = text /\ tabs' = tabs)]_vars

C10_Witness ==
    /\ ncalls = 2
    /\ called[1] = "add_variable_initialization"
    /\ called[2] = PlainVar(DictV(<< <<StrV("a"), IntV(12)>>, <<IntV(1), IntV(0)>> >>), None)
    /\ raised = "TypeError"
    /\ text # <<>>

\* the text the current call appended
Appended == SubSeq(text', Len(text) + 1, Len(text'))

InText(txt, t) == \E i \in 1..Len(txt) : txt[i] = t

\* C13: cpp_entry and cpp_exit each append a block opened by #ifdef __cplusplus
\* (not #ifndef) and closed by #endif, and leave the list of open defines as
\* it was before the call.
C13_CppGuardIsIfdef ==
    [][(called'[1] \in {"cpp_entry", "cpp_exit"})
          => /\ IsPrefix(text, text')
             /\ \E i \in 1..(Len(Appended) - 1) : Appended[i] = "#ifdef " /\ Appended[i + 1] = CPP
             /\ ~InText(Appended, "#ifndef ")
             /\ InText(Appended, "#endif ") \/ InText(Appended, "#endif")
             /\ defs' = defs]_vars

\* C14: add_function_prototype with extern set appends the line
\* "extern", a space, the prototype and ";"; with extern unset it appends the
\* prototype and ";" alone.
C14_ExternIsSeparateToken ==
    [][(called'[1] = "add_function_prototype" /\ raised' = "")
          => LET func == called'[2]
                 extern == called'[3]
                 line == (IF extern THEN <<"extern", " ">> ELSE <<>>)
                         \o prototype(func).text \o <<";">>
             IN text' = add_line(W, line, None, FALSE).text]_vars

\* C15: an add_license_comment call that raises leaves the writer as it was:
\* no text is appended and the bulk-comment flag keeps its value.
C15_FailedLicenseCommentChangesNothing ==
    [][(called'[1] = "add_license_comment" /\ raised' # "")
          => /\ text' = text
             /\ commenting' = commenting
             /\ tabs' = tabs /\ defs' = defs /\ switch' = switch]_vars


====
